---- MODULE Spec2Model ----
(***************************************************************************)
(* Document version management of the snow-leopard application:            *)
(*   - the restore handler of the version header component                 *)
(*     (apps/snow-leopard/components/document/version-header.tsx),         *)
(*   - the DocumentVersion table (packages/db/src/schema.ts) and the       *)
(*     createVersion write path of the version store,                      *)
(*   - the version cache (getVersions / invalidateVersions).               *)
(* Indices into the version list are 0-based as in the component; the      *)
(* TLA+ sequence holding the list is read at index + 1.                    *)
(***************************************************************************)
EXTENDS Integers, Sequences, FiniteSets, TLC

\* ------------------------------------------------------------------ bounds

\* Longest version list handed to the component.
MaxVersions == 2

\* Handler invocations that can be in progress at once (slots of runs).
MaxRuns == 2

\* Sessions calling createVersion on the document at once.
MaxSessions == 3

\* Rows the DocumentVersion table is let to grow to.
MaxStored == 3

\* Callers of getVersions at once.
MaxReaders == 2

\* ------------------------------------------------------------------ values

\* JavaScript null / undefined property value.
Null == "null"

\* The documents prop before the list has been loaded (undefined).
Undefined == [defined |-> FALSE, items |-> <<>>]

\* The documents prop once loaded with a list.
Loaded(list) == [defined |-> TRUE, items |-> list]

\* The document id of the open document (document.documentId).
DocumentId == "d1"

\* VersionData / Document rows as the component reads them: content and title.
\* content of a Document row is nullable; a title may be the empty string.
VersionPool ==
  { [content |-> "c1", title |-> "t1"],
    [content |-> "",   title |-> ""],
    [content |-> Null, title |-> "t2"] }

RECURSIVE ListsUpTo(_)
ListsUpTo(n) ==
  IF n = 0 THEN { <<>> }
  ELSE LET shorter == ListsUpTo(n - 1)
       IN  shorter \cup { Append(l, v) : l \in { s \in shorter : Len(s) = n - 1 },
                                         v \in VersionPool }

VersionLists == ListsUpTo(MaxVersions)

Slots == 1 .. MaxRuns

Sessions == 1 .. MaxSessions

Readers == 1 .. MaxReaders

\* A null uuid (previous_version_id of a first version).
NoId == 0

\* The version cache holding nothing for the document.
NoEntry == [present |-> FALSE, list |-> <<>>]

Entry(list) == [present |-> TRUE, list |-> list]

InvalidToast == "Invalid version selected"
FailedToast  == "Failed to restore version"
SuccessToast == "Version restored successfully"

\* ------------------------------------------------------------------ state

VARIABLES
  documents,            \* prop: Undefined or the ordered version list
  currentVersionIndex,  \* prop: the viewed index (0-based)
  document,             \* useDocument(): the in-memory document
  isMutating,           \* useState(false): the busy flag
  runs,                 \* invocations of handleRestoreVersion, by slot
  toast,                \* the notice shown last
  storeDoc,             \* the document head committed at the store
  versionCache,         \* the version cache's entry for DocumentId
  readers,              \* calls of versionCache.getVersions, by caller
  invalidatedAt,        \* rows committed when invalidateVersions last returned
  versions,             \* the DocumentVersion rows of the document, as committed
  sessions              \* calls of createVersion, by session

vars == <<documents, currentVersionIndex, document, isMutating, runs, toast,
          storeDoc, versionCache, readers, invalidatedAt, versions, sessions>>

\* What the component and its restore handler never touch.
storeVars == <<readers, invalidatedAt, versions, sessions>>

\* What the store and the cache never touch.
viewVars == <<documents, currentVersionIndex, document, isMutating, runs, toast,
              storeDoc>>

IdleReader == [pc |-> "idle", snap |-> <<>>, stale |-> FALSE, since |-> 0, got |-> -1]

IdleSession == [pc |-> "idle", max |-> 0, latest |-> NoId, result |-> "none"]

IdleRun ==
  [pc |-> "idle", content |-> Null, title |-> Null, resp |-> "none",
   reval |-> "none", inval |-> "none", effects |-> <<>>, events |-> <<>>]

\* ------------------------------------------------------------------ helpers

\* JavaScript a || b on strings and null: "" and null are falsy.
Falsy(a) == a = "" \/ a = Null

OrElse(a, b) == IF Falsy(a) THEN b ELSE a

Min(a, b) == IF a < b THEN a ELSE b

Max(a, b) == IF a > b THEN a ELSE b

Length(docs) == Len(docs.items)

\* documents[i] is defined.
HasVersion(docs, i) == docs # Undefined /\ i >= 0 /\ i < Length(docs)

\* The guard of handleRestoreVersion.
InvalidVersionNoUpperBound(docs, i) == docs = Undefined \/ i < 0

InvalidVersion(docs, i) == docs = Undefined \/ i < 0 \/ i >= Length(docs)

\* The component renders the header (and its buttons) at all.
Rendered ==
  /\ documents # Undefined
  /\ Length(documents) # 0
  /\ HasVersion(documents, currentVersionIndex)

\* disabled={isMutating} on the Restore button.
RestoreEnabledAlways == TRUE

RestoreEnabled == ~isMutating

\* The slot a new invocation takes: the lowest one not in progress.
Free(r) == runs[r].pc \in {"idle", "done"}

FreeSlot == CHOOSE r \in Slots : Free(r) /\ \A q \in Slots : Free(q) => r <= q

\* The navigation intents (Restore/Navigation Service state machine).
Navigate(type, docs, i) ==
  LET n == Length(docs)
  IN  CASE type = "next"   -> Min(i + 1, n - 1)
        [] type = "prev"   -> Max(i - 1, 0)
        [] type = "toggle" -> n - 1
        [] type = "latest" -> n - 1

\* The intent the restore handler issues after a successful restore.
RestoreNavIntentPrev == "prev"

RestoreNavIntent == "latest"

\* The intent of the Exit History button.
ExitHistoryIntent == "latest"

\* ------------------------------------------------------------------ actions

\* invalidateVersions: the entry is dropped, cached or not, and the
\* read-throughs under way are marked as overtaken.
InvalidateVersions ==
  /\ versionCache' = NoEntry
  /\ readers' = [rd \in Readers |->
                   IF readers[rd].pc = "idle" THEN readers[rd]
                   ELSE [readers[rd] EXCEPT !.stale = TRUE]]
  /\ invalidatedAt' = Len(versions)

Init ==
  /\ documents = Undefined
  /\ currentVersionIndex = -1
  /\ document = [documentId |-> DocumentId, content |-> "c0", title |-> "t0"]
  /\ isMutating = FALSE
  /\ runs = [r \in Slots |-> IdleRun]
  /\ toast = "none"
  /\ storeDoc = [content |-> "c0", title |-> "t0"]
  /\ versionCache = NoEntry
  /\ readers = [rd \in Readers |-> IdleReader]
  /\ invalidatedAt = 0
  /\ versions = <<>>
  /\ sessions = [s \in Sessions |-> IdleSession]

\* The parent loads the version list through the cache and shows the latest.
OpenDocument ==
  /\ documents = Undefined
  /\ \E list \in VersionLists :
       /\ documents' = Loaded(list)
       /\ currentVersionIndex' = Len(list) - 1
  /\ versionCache' = Entry(documents'.items)
  /\ UNCHANGED <<document, isMutating, runs, toast, storeDoc>>
  /\ UNCHANGED storeVars

\* A later read of the version list repopulates the cache.
GetVersionsAgain ==
  /\ documents # Undefined
  /\ ~versionCache.present
  /\ versionCache' = Entry(documents.items)
  /\ UNCHANGED <<documents, currentVersionIndex, document,
                 isMutating, runs, toast, storeDoc>>
  /\ UNCHANGED storeVars

HandleVersionChange(type) ==
  /\ documents # Undefined
  /\ Length(documents) > 0
  /\ currentVersionIndex' = Navigate(type, documents, currentVersionIndex)
  /\ UNCHANGED <<documents, document, isMutating,
                 runs, toast, storeDoc, versionCache>>
  /\ UNCHANGED storeVars

\* The Exit History button.
ExitHistory ==
  /\ Rendered
  /\ HandleVersionChange(ExitHistoryIntent)

\* handleRestoreVersion up to its first await.
HandleRestoreVersion ==
  IF InvalidVersion(documents, currentVersionIndex)
  THEN /\ toast' = InvalidToast
       /\ UNCHANGED <<documents, currentVersionIndex, document,
                      isMutating, runs, storeDoc, versionCache>>
       /\ UNCHANGED storeVars
  ELSE IF ~HasVersion(documents, currentVersionIndex)
  THEN \* reading .content of undefined throws inside the try block
       /\ toast' = FailedToast
       /\ isMutating' = FALSE
       /\ UNCHANGED <<documents, currentVersionIndex, document,
                      runs, storeDoc, versionCache>>
       /\ UNCHANGED storeVars
  ELSE /\ \E r \in Slots : Free(r)
       /\ LET versionToRestore == documents.items[currentVersionIndex + 1]
          IN  runs' = [runs EXCEPT ![FreeSlot] =
                         [pc |-> "fetching",
                          content |-> versionToRestore.content,
                          title |-> versionToRestore.title,
                          resp |-> "none",
                          reval |-> "none",
                          inval |-> "none",
                          effects |-> <<>>,
                          events |-> <<>>]]
       /\ isMutating' = TRUE
       /\ UNCHANGED <<documents, currentVersionIndex, document,
                      toast, storeDoc, versionCache>>
       /\ UNCHANGED storeVars

\* A click on the Restore button. setIsMutating(true) runs before the first
\* await and React applies the update of a click before the next click is
\* handled, so the button is disabled from this step on.
ClickRestore ==
  /\ Rendered
  /\ RestoreEnabled
  /\ HandleRestoreVersion

\* catch + finally of handleRestoreVersion: the run as it ends.
Thrown(run) ==
  [run EXCEPT !.pc = "done",
              !.effects = @ \o <<"console.error", "toast.error">>]

\* The event, the success toast and finally: the run as it ends.
Completed(run) ==
  [run EXCEPT !.pc = "done",
              !.effects = @ \o <<"event", "toast.success">>,
              !.events = @ \o <<[documentId |-> document.documentId,
                                 content |-> run.content,
                                 title |-> run.title]>>]

\* The notice a finished run leaves on screen.
ToastOf(run) ==
  IF run.effects[Len(run.effects)] = "toast.success" THEN SuccessToast
  ELSE FailedToast

\* A run ends: its last toast is shown and finally clears the busy flag.
Finish(r, run) ==
  /\ runs' = [runs EXCEPT ![r] = run]
  /\ toast' = ToastOf(run)
  /\ isMutating' = FALSE

\* The POST /api/document answers with success: the store has committed.
FetchOk(r) ==
  /\ runs[r].pc = "fetching"
  /\ storeDoc' = [content |-> runs[r].content, title |-> runs[r].title]
  /\ runs' = [runs EXCEPT ![r].pc = "revalidating", ![r].resp = "ok"]
  /\ UNCHANGED <<documents, currentVersionIndex, document,
                 isMutating, toast, versionCache>>
  /\ UNCHANGED storeVars

\* The same answer handled as a failure that still leaves history mode.
FetchNotOkLeavesHistory(r) ==
  /\ runs[r].pc = "fetching"
  /\ Finish(r, Thrown([runs[r] EXCEPT !.resp = "http_error"]))
  /\ currentVersionIndex' = Navigate("latest", documents, currentVersionIndex)
  /\ UNCHANGED <<documents, document, storeDoc, versionCache>>
  /\ UNCHANGED storeVars

\* The POST answers with a non-success status.
FetchNotOk(r) ==
  /\ runs[r].pc = "fetching"
  /\ Finish(r, Thrown([runs[r] EXCEPT !.resp = "http_error"]))
  /\ UNCHANGED <<documents, currentVersionIndex,
                 document, storeDoc, versionCache>>
  /\ UNCHANGED storeVars

\* fetch rejects (network error, timeout); the store may have committed or not.
FetchThrows(r) ==
  /\ runs[r].pc = "fetching"
  /\ Finish(r, Thrown([runs[r] EXCEPT !.resp = "network_error"]))
  /\ storeDoc' \in {storeDoc, [content |-> runs[r].content, title |-> runs[r].title]}
  /\ UNCHANGED <<documents, currentVersionIndex, document, versionCache>>
  /\ UNCHANGED storeVars

\* await mutate(...) resolves: setDocument, handleVersionChange, and the
\* call of versionCache.invalidateVersions.
RevalidateOk(r) ==
  /\ runs[r].pc = "revalidating"
  /\ document' = [document EXCEPT !.content = OrElse(runs[r].content, ""),
                                  !.title = OrElse(runs[r].title, document.title)]
  /\ currentVersionIndex' = Navigate(RestoreNavIntent, documents, currentVersionIndex)
  /\ runs' = [runs EXCEPT ![r].pc = "invalidating",
                          ![r].reval = "ok",
                          ![r].effects = @ \o <<"setDocument", "latest">>]
  /\ UNCHANGED <<documents, isMutating, toast, storeDoc, versionCache>>
  /\ UNCHANGED storeVars

\* The rejection handled by a catch that is not followed by finally.
RevalidateThrowsNoFinally(r) ==
  /\ runs[r].pc = "revalidating"
  /\ runs' = [runs EXCEPT ![r] = Thrown([runs[r] EXCEPT !.reval = "failed"])]
  /\ toast' = FailedToast
  /\ UNCHANGED <<documents, currentVersionIndex, document,
                 isMutating, storeDoc, versionCache>>
  /\ UNCHANGED storeVars

\* await mutate(...) rejects.
RevalidateThrows(r) ==
  /\ runs[r].pc = "revalidating"
  /\ Finish(r, Thrown([runs[r] EXCEPT !.reval = "failed"]))
  /\ UNCHANGED <<documents, currentVersionIndex,
                 document, storeDoc, versionCache>>
  /\ UNCHANGED storeVars

\* The rejection of invalidateVersions left to the outer catch.
InvalidationFailedUncaught(run) == Thrown(run)

\* catch (cacheError): warn and go on.
InvalidationFailed(run) ==
  Completed([run EXCEPT !.effects = @ \o <<"console.warn">>])

\* await versionCache.invalidateVersions(...) resolves: the entry is dropped.
InvalidateOk(r) ==
  /\ runs[r].pc = "invalidating"
  /\ InvalidateVersions
  /\ Finish(r, Completed([runs[r] EXCEPT !.inval = "ok",
                                         !.effects = @ \o <<"invalidate">>]))
  /\ UNCHANGED <<documents, currentVersionIndex, document, storeDoc>>
  /\ UNCHANGED <<versions, sessions>>

\* await versionCache.invalidateVersions(...) rejects.
InvalidateThrows(r) ==
  /\ runs[r].pc = "invalidating"
  /\ Finish(r, InvalidationFailed([runs[r] EXCEPT !.inval = "failed"]))
  /\ UNCHANGED <<documents, currentVersionIndex,
                 document, storeDoc, versionCache>>
  /\ UNCHANGED storeVars

Settle(r) ==
  \/ FetchOk(r)
  \/ FetchNotOk(r)
  \/ FetchThrows(r)
  \/ RevalidateOk(r)
  \/ RevalidateThrows(r)
  \/ InvalidateOk(r)
  \/ InvalidateThrows(r)

Next ==
  \/ OpenDocument
  \/ GetVersionsAgain
  \/ \E type \in {"next", "prev", "toggle", "latest"} : HandleVersionChange(type)
  \/ ExitHistory
  \/ ClickRestore
  \/ \E r \in Slots : FetchOk(r)
  \/ \E r \in Slots : FetchNotOk(r)
  \/ \E r \in Slots : FetchThrows(r)
  \/ \E r \in Slots : RevalidateOk(r)
  \/ \E r \in Slots : RevalidateThrows(r)
  \/ \E r \in Slots : InvalidateOk(r)
  \/ \E r \in Slots : InvalidateThrows(r)

Spec == Init /\ [][Next]_vars

\* The component mounted with any props, and its handler also called while
\* nothing is rendered (no button to click).
AnyPropsInit ==
  /\ documents \in {Undefined} \cup { Loaded(l) : l \in VersionLists }
  /\ currentVersionIndex \in -1 .. MaxVersions
  /\ document = [documentId |-> DocumentId, content |-> "c0", title |-> "t0"]
  /\ isMutating = FALSE
  /\ runs = [r \in Slots |-> IdleRun]
  /\ toast = "none"
  /\ storeDoc = [content |-> "c0", title |-> "t0"]
  /\ versionCache = IF documents = Undefined THEN NoEntry ELSE Entry(documents.items)
  /\ readers = [rd \in Readers |-> IdleReader]
  /\ invalidatedAt = 0
  /\ versions = <<>>
  /\ sessions = [s \in Sessions |-> IdleSession]

CallRestoreUnrendered ==
  /\ ~Rendered
  /\ HandleRestoreVersion

HandlerNext == Next \/ CallRestoreUnrendered

HandlerSpec == AnyPropsInit /\ [][HandlerNext]_vars

\* Every awaited operation eventually settles.
FairSpec == Spec /\ \A r \in Slots : WF_vars(Settle(r))

\* ------------------------------------------------------------------ store

\* The unique constraints the DocumentVersion table declares: its primary key.
DocumentVersionUniqueKeys == { {"id"} }

\* An insert of row is refused by a unique constraint of the table.
ViolatesUnique(row, rows) ==
  \E key \in DocumentVersionUniqueKeys, i \in 1 .. Len(rows) :
    \A column \in key : rows[i][column] = row[column]

\* max(version) over the document's rows, 0 when there is none.
MaxVersionNumber(rows) ==
  IF rows = <<>> THEN 0
  ELSE CHOOSE m \in { rows[i].version : i \in 1 .. Len(rows) } :
         \A i \in 1 .. Len(rows) : rows[i].version <= m

\* The id of the current latest version (the last committed of the highest
\* number), NoId when there is none.
LatestId(rows) ==
  IF rows = <<>> THEN NoId
  ELSE LET m == MaxVersionNumber(rows)
           i == CHOOSE j \in 1 .. Len(rows) :
                  /\ rows[j].version = m
                  /\ \A k \in 1 .. Len(rows) : rows[k].version = m => k <= j
       IN  rows[i].id

\* rows with row put in by ascending version number, after its equals.
RECURSIVE InsertByVersion(_, _)
InsertByVersion(row, rows) ==
  IF rows = <<>> THEN <<row>>
  ELSE IF row.version < Head(rows).version THEN <<row>> \o rows
  ELSE <<Head(rows)>> \o InsertByVersion(row, Tail(rows))

\* listVersions: the document's rows by ascending version number.
RECURSIVE ListVersions(_)
ListVersions(rows) ==
  IF rows = <<>> THEN <<>>
  ELSE InsertByVersion(rows[Len(rows)], ListVersions(SubSeq(rows, 1, Len(rows) - 1)))

\* createVersion reads the highest version number and the latest version.
CreateRead(s) ==
  /\ sessions[s].pc = "idle"
  /\ Len(versions) + Cardinality({ t \in Sessions : sessions[t].pc = "read" }) < MaxStored
  /\ sessions' = [sessions EXCEPT ![s] =
                    [pc |-> "read", max |-> MaxVersionNumber(versions),
                     latest |-> LatestId(versions), result |-> "none"]]
  /\ UNCHANGED <<versionCache, readers, invalidatedAt, versions>>
  /\ UNCHANGED viewVars

\* createVersion inserts the row numbered one past what it read.
CreateCommit(s) ==
  /\ sessions[s].pc = "read"
  /\ LET row == [id |-> Len(versions) + 1,
                 documentId |-> DocumentId,
                 version |-> sessions[s].max + 1,
                 previousVersionId |-> sessions[s].latest]
     IN  IF ViolatesUnique(row, versions)
         THEN /\ sessions' = [sessions EXCEPT ![s].pc = "idle",
                                              ![s].result = "ConflictError"]
              /\ UNCHANGED versions
         ELSE /\ sessions' = [sessions EXCEPT ![s].pc = "idle", ![s].result = "ok"]
              /\ versions' = Append(versions, row)
  /\ UNCHANGED <<versionCache, readers, invalidatedAt>>
  /\ UNCHANGED viewVars

StoreNext ==
  \/ \E s \in Sessions : CreateRead(s)
  \/ \E s \in Sessions : CreateCommit(s)

StoreSpec == Init /\ [][StoreNext]_vars

\* ------------------------------------------------------------------ cache

\* getVersions on a cached entry: the entry is returned.
GetVersionsHit(rd) ==
  /\ readers[rd].pc = "idle"
  /\ versionCache.present
  /\ readers' = [readers EXCEPT ![rd].since = invalidatedAt,
                                ![rd].got = Len(versionCache.list)]
  /\ UNCHANGED <<versionCache, invalidatedAt, versions, sessions>>
  /\ UNCHANGED viewVars

\* getVersions on a miss: the read-through to the store starts.
GetVersionsMiss(rd) ==
  /\ readers[rd].pc = "idle"
  /\ ~versionCache.present
  /\ readers' = [readers EXCEPT ![rd] =
                   [pc |-> "fetching", snap |-> <<>>, stale |-> FALSE,
                    since |-> invalidatedAt, got |-> -1]]
  /\ UNCHANGED <<versionCache, invalidatedAt, versions, sessions>>
  /\ UNCHANGED viewVars

\* The store answers the read-through with listVersions as of now.
StoreAnswers(rd) ==
  /\ readers[rd].pc = "fetching"
  /\ readers' = [readers EXCEPT ![rd].pc = "filling",
                                ![rd].snap = ListVersions(versions)]
  /\ UNCHANGED <<versionCache, invalidatedAt, versions, sessions>>
  /\ UNCHANGED viewVars

\* A read-through may write what it fetched whatever happened meanwhile.
MayFillAlways(reader) == TRUE

\* A read-through overtaken by an invalidation does not write the cache.
MayFill(reader) == ~reader.stale

\* The read-through completes: the list is returned and, unless overtaken,
\* cached.
GetVersionsFill(rd) ==
  /\ readers[rd].pc = "filling"
  /\ versionCache' = IF MayFill(readers[rd]) THEN Entry(readers[rd].snap)
                     ELSE versionCache
  /\ readers' = [readers EXCEPT ![rd].pc = "idle",
                                ![rd].got = Len(readers[rd].snap)]
  /\ UNCHANGED <<invalidatedAt, versions, sessions>>
  /\ UNCHANGED viewVars

\* A call of invalidateVersions from outside the restore handler (after a
\* createVersion, say).
InvalidateAfterMutation ==
  /\ InvalidateVersions
  /\ UNCHANGED <<versions, sessions>>
  /\ UNCHANGED viewVars

\* One session mutates the store here: the cache depends on the order of
\* commits, reads and invalidations, not on the race of writers.
CacheNext ==
  \/ \E s \in {1} : CreateRead(s)
  \/ \E s \in {1} : CreateCommit(s)
  \/ \E rd \in Readers : GetVersionsHit(rd)
  \/ \E rd \in Readers : GetVersionsMiss(rd)
  \/ \E rd \in Readers : StoreAnswers(rd)
  \/ \E rd \in Readers : GetVersionsFill(rd)
  \/ InvalidateAfterMutation

CacheSpec == Init /\ [][CacheNext]_vars

\* ------------------------------------------------------------------ claims

InProgress(r) == runs[r].pc \in {"fetching", "revalidating", "invalidating"}

\* Run r takes a step.
StepOf(r) == runs'[r] # runs[r]

Has(seq, x) == \E i \in 1 .. Len(seq) : seq[i] = x

\* The effects of a run that the restore contract orders; a failed
\* invalidation (console.warn) is an invalidation that was attempted.
RECURSIVE ContractSteps(_)
ContractSteps(effects) ==
  IF effects = <<>> THEN <<>>
  ELSE LET e == Head(effects)
           rest == ContractSteps(Tail(effects))
       IN  IF e \in {"setDocument", "latest", "invalidate", "event"} THEN <<e>> \o rest
           ELSE IF e = "console.warn" THEN <<"invalidate">> \o rest
           ELSE rest

\* C1: every step of a restore attempt whose store request has not answered
\* success leaves the in-memory document, the navigation index and the cache
\* entry as they were and emits no event; when the store request fails the
\* attempt ends with the failure notice and nothing else; and a run navigates
\* to latest only after the store answered success.
RestoreFailureLeavesState ==
  [][\A r \in Slots :
       /\ (StepOf(r) /\ runs'[r].resp # "ok") =>
            /\ document' = document
            /\ currentVersionIndex' = currentVersionIndex
            /\ versionCache' = versionCache
            /\ runs'[r].events = <<>>
            /\ runs'[r].pc = "done" =>
                 /\ toast' = FailedToast
                 /\ runs'[r].effects = <<"console.error", "toast.error">>
       /\ (StepOf(r) /\ Has(runs'[r].effects, "latest")) => runs'[r].resp = "ok"
    ]_vars

\* C1 witness: a restore from a historical index has failed at the store; the
\* failure notice is up, the index is still historical, the cache entry is kept.
RestoreFailedSeen ==
  \E r \in Slots :
    /\ runs[r].pc = "done"
    /\ runs[r].resp \in {"http_error", "network_error"}
    /\ toast = FailedToast
    /\ versionCache.present
    /\ currentVersionIndex < Length(documents) - 1
    /\ document.content = "c0"

\* C2: at most one restore is in progress at any time, so at most one restore
\* request is outstanding at the store; the busy flag is up while it is.
AtMostOneRestoreInFlight ==
  /\ Cardinality({ r \in Slots : InProgress(r) }) <= 1
  /\ Cardinality({ r \in Slots : runs[r].pc = "fetching" }) <= 1
  /\ (\E r \in Slots : InProgress(r)) => isMutating

\* C2 witness: after an earlier restore has ended, a request is outstanding
\* while the header is rendered, so the Restore button is on screen, disabled.
RestoreInFlightSeen ==
  /\ Rendered
  /\ isMutating
  /\ \E r \in Slots : runs[r].pc = "fetching"
  /\ toast = SuccessToast

\* The version list is absent or empty, or the index is out of its range.
NoSuchVersion ==
  \/ documents = Undefined
  \/ Length(documents) = 0
  \/ currentVersionIndex < 0
  \/ currentVersionIndex >= Length(documents)

\* C3: a call of the restore handler with no version list, an empty one or an
\* index out of range shows the invalid-version error and changes nothing
\* else: no run starts (no request is sent), the busy flag is not touched.
InvalidRestoreFailsFast ==
  [][(NoSuchVersion /\ (CallRestoreUnrendered \/ ClickRestore)) =>
       /\ toast' = InvalidToast
       /\ UNCHANGED <<documents, currentVersionIndex, document, isMutating,
                      runs, storeDoc, versionCache>>
    ]_vars

\* C3 witness: the invalid-version error is up for an index past the end of a
\* non-empty list, and no run has ever started.
InvalidRestoreSeen ==
  /\ toast = InvalidToast
  /\ documents # Undefined
  /\ Length(documents) > 0
  /\ currentVersionIndex >= Length(documents)
  /\ \A r \in Slots : runs[r].pc = "idle"
  /\ ~isMutating

\* C4: the step that applies a successful restore leaves the in-memory
\* document with the content and title of the restored version, the values
\* sent to and committed by the store.
RestoredDocumentIsVersion ==
  [][\A r \in Slots :
       (runs[r].pc = "revalidating" /\ runs'[r].pc = "invalidating") =>
         /\ document'.content = runs[r].content
         /\ document'.title = runs[r].title
    ]_vars

\* C5: a finished restore whose store request answered success has updated
\* the document, navigated to latest, invalidated the cache and emitted one
\* version-restored event with the restored version's id, content and title,
\* in this order; and no run does any of the four without that answer.
RestoreSuccessSequence ==
  \A r \in Slots :
    /\ (runs[r].pc = "done" /\ runs[r].resp = "ok") =>
         /\ ContractSteps(runs[r].effects)
              = <<"setDocument", "latest", "invalidate", "event">>
         /\ runs[r].events = <<[documentId |-> DocumentId,
                                content |-> runs[r].content,
                                title |-> runs[r].title]>>
    /\ ContractSteps(runs[r].effects) # <<>> => runs[r].resp = "ok"

\* C6: a restore whose cache invalidation failed ends as a success: the
\* warning is logged, the document update and the navigation stay, the
\* event is emitted, the success notice is shown and the busy flag is cleared.
InvalidationFailureSwallowed ==
  /\ [](\A r \in Slots :
          (runs[r].pc = "done" /\ runs[r].inval = "failed") =>
            /\ runs[r].effects = <<"setDocument", "latest", "console.warn",
                                   "event", "toast.success">>
            /\ Len(runs[r].events) = 1)
  /\ [][\A r \in Slots :
          (StepOf(r) /\ runs'[r].inval = "failed") =>
            /\ document' = document
            /\ currentVersionIndex' = currentVersionIndex
            /\ toast' = SuccessToast
            /\ isMutating' = FALSE
       ]_vars

\* C6 witness: a run ended after a failed invalidation; the restored content
\* is shown at the latest index and the stale cache entry is still there.
InvalidationFailureSeen ==
  \E r \in Slots :
    /\ runs[r].pc = "done"
    /\ runs[r].inval = "failed"
    /\ versionCache.present
    /\ document.content = "c1"
    /\ currentVersionIndex = Length(documents) - 1
    /\ toast = SuccessToast

BusyFlagEventuallyCleared ==
  /\ [](isMutating <=> \E r \in Slots : InProgress(r))
  /\ (isMutating ~> ~isMutating)

\* C10 witness: a run has ended in the outer catch after a failed
\* revalidation and the flag is down again.
BusyFlagClearedSeen ==
  \E r \in Slots :
    /\ runs[r].pc = "done"
    /\ runs[r].reval = "failed"
    /\ ~isMutating

\* C7: the committed versions of the document are numbered 1..N without
\* duplicates, and each points to the version numbered one less (to none for
\* version 1): one linear, acyclic, unbranched chain.
VersionChainLinear ==
  LET n == Len(versions)
  IN  /\ \A i, j \in 1 .. n : versions[i].version = versions[j].version => i = j
      /\ { versions[i].version : i \in 1 .. n } = 1 .. n
      /\ \A i \in 1 .. n :
           IF versions[i].version = 1 THEN versions[i].previousVersionId = NoId
           ELSE \E j \in 1 .. n :
                  /\ versions[j].id = versions[i].previousVersionId
                  /\ versions[j].version = versions[i].version - 1

\* C8: a cached list holds every row committed before the last invalidation
\* returned, and so does every list getVersions has returned to a call made
\* since; invalidating with nothing cached leaves nothing cached and the
\* store as it is.
NoStaleReadAfterInvalidation ==
  /\ [](versionCache.present => Len(versionCache.list) >= invalidatedAt)
  /\ [](\A rd \in Readers :
          (readers[rd].pc = "idle" /\ readers[rd].got # -1) =>
            readers[rd].got >= readers[rd].since)
  /\ [][(InvalidateAfterMutation /\ ~versionCache.present) =>
          (versionCache' = NoEntry /\ versions' = versions)]_vars

\* C8 witness: a read-through that began before an invalidation ended after
\* it with a list missing a committed row, and the cache was left empty.
OvertakenReadNotCachedSeen ==
  \E rd \in Readers :
    /\ readers[rd].pc = "idle"
    /\ readers[rd].stale
    /\ readers[rd].got >= 0
    /\ readers[rd].got < invalidatedAt
    /\ ~versionCache.present

====
